---- MODULE Spec2Model ----
(***************************************************************************)
(* Gmail OAuth token lifecycle of main.py: the authorization-code callback *)
(* (gmail_callback), token resolution with refresh (refresh_gmail_token)   *)
(* and mail dispatch (send_gmail_message / gmail_send), over the           *)
(* gmail_tokens table.                                                     *)
(*                                                                         *)
(* The table is a sequence of rows; created_at, which the code never sets  *)
(* and the database assigns on insert, is the row's insertion number.      *)
(* Every blocking network call (token endpoint, table insert, mail API) is *)
(* one step, so that concurrent /gmail/send requests interleave between    *)
(* them.  Access tokens issued by the provider are numbered 1, 2, ...      *)
(***************************************************************************)
EXTENDS Integers, Sequences, FiniteSets, TLC

\* ---- bounds of the model ----
MaxTime == 1
MaxIssued == 3

\* ---- values ----
FixedUser == "prod.tkmusic@gmail.com"
OtherUser == "a@b.com"
Principals == {FixedUser, OtherUser}
\* the concurrent POST /gmail/send requests
Senders == {1, 2}
Absent == "absent"
None == "null"
\* <<refresh_token, token_type, scope>> of the responses to the
\* authorization_code grant and to the refresh_token grant
AuthShapes == {<<"R1", "Bearer", "gmail.send">>,
               <<Absent, "MAC", "gmail.readonly">>}
RefreshShapes == {<<"R2", "MAC", "gmail.readonly">>,
                  <<"R1", "Bearer", "gmail.send">>,
                  <<Absent, "Bearer", "gmail.send">>}
\* expires_in of the token responses, in clock ticks
Lifetimes == {0, 1}
NoRow == [created_at |-> 0]
NoData == [none |-> TRUE]

VARIABLES
    store,          \* gmail_tokens: sequence of rows in insertion order
    now,            \* datetime.now(timezone.utc)
    cbpc,           \* gmail_callback: position of the handler
    tokens,         \* gmail_callback: local `tokens`
    cb_expires_at,  \* gmail_callback: local `expires_at`
    authOk,         \* number of authorization-code exchanges that returned an access token
    pc,             \* per send request: position
    user,           \* per send request: request.user_email
    record,         \* refresh_gmail_token: local `record`
    new_data,       \* refresh_gmail_token: local `new_data`
    expires_at,     \* refresh_gmail_token: local `expires_at`
    access_token,   \* send_gmail_message: local `access_token`
    bearer,         \* token placed in the Authorization header of the mail call
    refreshCalls,   \* per send request: POSTs made to the token endpoint
    mailCalls,      \* per send request: POSTs made to the mail API
    inserted,       \* per send request: created_at of the row it inserted (0: none)
    offered,        \* per send request: refresh_token field of the refresh response
    refreshOk,      \* per principal: refresh exchanges that returned an access token
    prior           \* per row: created_at of the row a refresh copied it from (0: callback row)

vars == <<store, now, cbpc, tokens, cb_expires_at, authOk, pc, user, record,
          new_data, expires_at, access_token, bearer, refreshCalls, mailCalls,
          inserted, offered, refreshOk, prior>>

cbVars == <<cbpc, tokens, cb_expires_at, authOk>>
sendVars == <<pc, user, record, new_data, expires_at, access_token, bearer,
              refreshCalls, mailCalls, inserted, offered, refreshOk>>

\* ---- the table ----

\* .eq("user_email", user_email)
RowsOf(u) == {i \in 1..Len(store) : store[i].user_email = u}

\* mutant of Latest: the order is ascending, the row of least created_at
Latest_Oldest(u) ==
    IF RowsOf(u) = {} THEN NoRow
    ELSE LET i == CHOOSE i \in RowsOf(u) :
                    \A j \in RowsOf(u) : store[j].created_at >= store[i].created_at
         IN store[i]

\* .order("created_at", desc=True).limit(1): the row of greatest created_at
Latest(u) ==
    IF RowsOf(u) = {} THEN NoRow
    ELSE LET i == CHOOSE i \in RowsOf(u) :
                    \A j \in RowsOf(u) : store[j].created_at <= store[i].created_at
         IN store[i]

\* mutant of Insert: an upsert on user_email, which overwrites the principal's row
Insert_Upsert(row) ==
    LET new == [user_email |-> row.user_email,
                access_token |-> row.access_token,
                refresh_token |-> row.refresh_token,
                token_type |-> row.token_type,
                scope |-> row.scope,
                expires_at |-> row.expires_at,
                created_at |-> Len(store) + 1]
    IN IF RowsOf(row.user_email) = {} THEN Append(store, new)
       ELSE [i \in 1..Len(store) |->
                IF store[i].user_email = row.user_email THEN new ELSE store[i]]

\* .insert({...}).execute(): a new row, created_at assigned by the table
Insert(row) ==
    Append(store, [user_email |-> row.user_email,
                   access_token |-> row.access_token,
                   refresh_token |-> row.refresh_token,
                   token_type |-> row.token_type,
                   scope |-> row.scope,
                   expires_at |-> row.expires_at,
                   created_at |-> Len(store) + 1])

\* ---- the provider ----

Issued == authOk + refreshOk[FixedUser] + refreshOk[OtherUser]

\* The token responses carrying an access token: dicts with or without the
\* refresh_token key.
Grants(shapes) ==
    {[access_token |-> Issued + 1,
      refresh_token |-> g[1],
      token_type |-> g[2],
      scope |-> g[3],
      expires_in |-> e] :
        g \in {h \in shapes : h[1] # Absent}, e \in Lifetimes}
    \cup
    {[access_token |-> Issued + 1,
      token_type |-> g[2],
      scope |-> g[3],
      expires_in |-> e] :
        g \in {h \in shapes : h[1] = Absent}, e \in Lifetimes}

\* A token response without the access_token key (an error payload).
ErrorResponse == [error |-> "invalid_grant"]

\* "access_token" in tokens
HasAccessToken(resp) == "access_token" \in DOMAIN resp

\* tokens.get("refresh_token")
GetRefreshToken(resp) ==
    IF "refresh_token" \in DOMAIN resp THEN resp.refresh_token ELSE None

\* mutant of TokenValid: a token counts as valid at the instant it expires
TokenValid_Inclusive(rec) == rec.expires_at >= now

\* record["expires_at"] > datetime.now(timezone.utc)
TokenValid(rec) == rec.expires_at > now

Init ==
    /\ store = <<>>
    /\ now = 0
    /\ cbpc = "idle"
    /\ tokens = NoData
    /\ cb_expires_at = 0
    /\ authOk = 0
    /\ pc = [s \in Senders |-> "idle"]
    /\ user = [s \in Senders |-> None]
    /\ record = [s \in Senders |-> NoRow]
    /\ new_data = [s \in Senders |-> NoData]
    /\ expires_at = [s \in Senders |-> 0]
    /\ access_token = [s \in Senders |-> 0]
    /\ bearer = [s \in Senders |-> 0]
    /\ refreshCalls = [s \in Senders |-> 0]
    /\ mailCalls = [s \in Senders |-> 0]
    /\ inserted = [s \in Senders |-> 0]
    /\ offered = [s \in Senders |-> None]
    /\ refreshOk = [p \in Principals |-> 0]
    /\ prior = <<>>

\* ---- gmail_callback ----
\* The handler is an async def that never awaits: the event loop runs one
\* callback at a time.  cbpc is "idle" before the first callback and after a
\* saved one, "err400" after a rejected one.

\* lines 89-100: the authorization-code exchange returns an access token
CallbackGranted ==
    /\ cbpc \in {"idle", "err400"}
    /\ Issued < MaxIssued
    /\ \E g \in Grants(AuthShapes) :
        /\ HasAccessToken(g)
        /\ tokens' = g
        /\ cb_expires_at' = now + g.expires_in
    /\ authOk' = authOk + 1
    /\ cbpc' = "inserting"
    /\ UNCHANGED <<store, prior, now>>
    /\ UNCHANGED sendVars

\* lines 89-94: the response has no access_token, HTTP 400
CallbackRejected ==
    /\ cbpc = "idle"
    /\ ~HasAccessToken(ErrorResponse)
    /\ cbpc' = "err400"
    /\ UNCHANGED <<store, prior, now, tokens, cb_expires_at, authOk>>
    /\ UNCHANGED sendVars

\* the row gmail_callback inserts, lines 105-112
CallbackRow ==
    [user_email |-> FixedUser,
     access_token |-> tokens.access_token,
     refresh_token |-> GetRefreshToken(tokens),
     token_type |-> tokens.token_type,
     scope |-> tokens.scope,
     expires_at |-> cb_expires_at]

\* lines 105-114
CallbackInsert ==
    /\ cbpc = "inserting"
    /\ store' = Insert(CallbackRow)
    /\ prior' = Append(prior, 0)
    /\ cbpc' = "idle"
    /\ tokens' = NoData
    /\ cb_expires_at' = 0
    /\ UNCHANGED <<now, authOk>>
    /\ UNCHANGED sendVars

\* ---- refresh_gmail_token ----

\* POST /gmail/send requests are numbered in their order of arrival
Arrives(s) == pc[s] = "idle" /\ \A t \in Senders : t < s => pc[t] # "idle"

\* mutant of ResolveNotFound: no row yields a null token instead of the 404
ResolveNotFound_ReturnsNone(s, u) ==
    /\ Arrives(s)
    /\ Latest(u) = NoRow
    /\ user' = [user EXCEPT ![s] = u]
    /\ pc' = [pc EXCEPT ![s] = "sending"]
    /\ UNCHANGED <<store, prior, now, record, new_data, expires_at, access_token, bearer,
                   refreshCalls, mailCalls, inserted, offered, refreshOk>>
    /\ UNCHANGED cbVars

\* lines 122-132: no row for the principal, HTTP 404
ResolveNotFound(s, u) ==
    /\ Arrives(s)
    /\ Latest(u) = NoRow
    /\ user' = [user EXCEPT ![s] = u]
    /\ pc' = [pc EXCEPT ![s] = "err404"]
    /\ UNCHANGED <<store, prior, now, record, new_data, expires_at, access_token, bearer,
                   refreshCalls, mailCalls, inserted, offered, refreshOk>>
    /\ UNCHANGED cbVars

\* lines 122-138: the latest row is still valid
ResolveValid(s, u) ==
    /\ Arrives(s)
    /\ Latest(u) # NoRow
    /\ TokenValid(Latest(u))
    /\ user' = [user EXCEPT ![s] = u]
    /\ record' = [record EXCEPT ![s] = Latest(u)]
    /\ access_token' = [access_token EXCEPT ![s] = Latest(u).access_token]
    /\ pc' = [pc EXCEPT ![s] = "sending"]
    /\ UNCHANGED <<store, prior, now, new_data, expires_at, bearer,
                   refreshCalls, mailCalls, inserted, offered, refreshOk>>
    /\ UNCHANGED cbVars

\* lines 122-148: the latest row has expired
ResolveStale(s, u) ==
    /\ Arrives(s)
    /\ Latest(u) # NoRow
    /\ ~TokenValid(Latest(u))
    /\ user' = [user EXCEPT ![s] = u]
    /\ record' = [record EXCEPT ![s] = Latest(u)]
    /\ pc' = [pc EXCEPT ![s] = "refreshing"]
    /\ UNCHANGED <<store, prior, now, new_data, expires_at, access_token, bearer,
                   refreshCalls, mailCalls, inserted, offered, refreshOk>>
    /\ UNCHANGED cbVars

\* lines 150-160: the refresh exchange returns an access token
RefreshGranted(s) ==
    /\ pc[s] = "refreshing"
    /\ Issued < MaxIssued
    /\ \E g \in Grants(RefreshShapes) :
        /\ HasAccessToken(g)
        /\ new_data' = [new_data EXCEPT ![s] = g]
        /\ offered' = [offered EXCEPT ![s] = GetRefreshToken(g)]
        /\ expires_at' = [expires_at EXCEPT ![s] = now + g.expires_in]
    /\ refreshCalls' = [refreshCalls EXCEPT ![s] = @ + 1]
    /\ refreshOk' = [refreshOk EXCEPT ![user[s]] = @ + 1]
    /\ pc' = [pc EXCEPT ![s] = "inserting"]
    /\ UNCHANGED <<store, prior, now, user, record, access_token, bearer, mailCalls, inserted>>
    /\ UNCHANGED cbVars

\* mutant of RefreshRejected: a rejected refresh is tried once more
RefreshRejected_Retry(s) ==
    /\ pc[s] = "refreshing"
    /\ ~HasAccessToken(ErrorResponse)
    /\ refreshCalls[s] < 2
    /\ refreshCalls' = [refreshCalls EXCEPT ![s] = @ + 1]
    /\ pc' = [pc EXCEPT ![s] = IF refreshCalls[s] = 0 THEN "refreshing" ELSE "err400"]
    /\ record' = [record EXCEPT ![s] = IF refreshCalls[s] = 0 THEN @ ELSE NoRow]
    /\ UNCHANGED <<store, prior, now, user, new_data, expires_at, access_token, bearer,
                   mailCalls, inserted, offered, refreshOk>>
    /\ UNCHANGED cbVars

\* lines 150-155: the refresh response has no access_token, HTTP 400
RefreshRejected(s) ==
    /\ pc[s] = "refreshing"
    /\ ~HasAccessToken(ErrorResponse)
    /\ refreshCalls' = [refreshCalls EXCEPT ![s] = @ + 1]
    /\ pc' = [pc EXCEPT ![s] = "err400"]
    /\ record' = [record EXCEPT ![s] = NoRow]
    /\ UNCHANGED <<store, prior, now, user, new_data, expires_at, access_token, bearer,
                   mailCalls, inserted, offered, refreshOk>>
    /\ UNCHANGED cbVars

\* mutant of RefreshRow: the refresh response's refresh_token, token_type and
\* scope are stored when it carries them
RefreshRow_PrefersOffered(s) ==
    [user_email |-> user[s],
     access_token |-> new_data[s].access_token,
     refresh_token |-> IF "refresh_token" \in DOMAIN new_data[s]
                       THEN new_data[s].refresh_token ELSE record[s].refresh_token,
     token_type |-> new_data[s].token_type,
     scope |-> new_data[s].scope,
     expires_at |-> expires_at[s]]

\* the row refresh_gmail_token inserts, lines 163-170
RefreshRow(s) ==
    [user_email |-> user[s],
     access_token |-> new_data[s].access_token,
     refresh_token |-> record[s].refresh_token,
     token_type |-> record[s].token_type,
     scope |-> record[s].scope,
     expires_at |-> expires_at[s]]

\* mutant of RefreshInsert: the row that was read is updated in place
RefreshInsert_UpdateInPlace(s) ==
    /\ pc[s] = "inserting"
    /\ store' = [store EXCEPT ![record[s].created_at] =
                    [@ EXCEPT !.access_token = new_data[s].access_token,
                              !.expires_at = expires_at[s]]]
    /\ inserted' = [inserted EXCEPT ![s] = record[s].created_at]
    /\ access_token' = [access_token EXCEPT ![s] = new_data[s].access_token]
    /\ new_data' = [new_data EXCEPT ![s] = NoData]
    /\ expires_at' = [expires_at EXCEPT ![s] = 0]
    /\ pc' = [pc EXCEPT ![s] = "sending"]
    /\ UNCHANGED <<prior, now, user, record, bearer, refreshCalls, mailCalls, offered,
                   refreshOk>>
    /\ UNCHANGED cbVars

\* lines 157-172, 180: the insert, and the return of new_access to send_gmail_message
RefreshInsert(s) ==
    /\ pc[s] = "inserting"
    /\ store' = Insert(RefreshRow(s))
    /\ prior' = Append(prior, record[s].created_at)
    /\ inserted' = [inserted EXCEPT ![s] = Len(store')]
    /\ access_token' = [access_token EXCEPT ![s] = new_data[s].access_token]
    /\ new_data' = [new_data EXCEPT ![s] = NoData]
    /\ expires_at' = [expires_at EXCEPT ![s] = 0]
    /\ pc' = [pc EXCEPT ![s] = "sending"]
    /\ UNCHANGED <<now, user, record, bearer, refreshCalls, mailCalls, offered, refreshOk>>
    /\ UNCHANGED cbVars

\* ---- send_gmail_message / gmail_send ----

\* lines 182-196, 207: the mail API answers 200
MailAccepted(s) ==
    /\ pc[s] = "sending"
    /\ bearer' = [bearer EXCEPT ![s] = access_token[s]]
    /\ mailCalls' = [mailCalls EXCEPT ![s] = @ + 1]
    /\ pc' = [pc EXCEPT ![s] = "sent"]
    /\ record' = [record EXCEPT ![s] = NoRow]
    /\ offered' = [offered EXCEPT ![s] = None]
    /\ UNCHANGED <<store, prior, now, user, new_data, expires_at, access_token,
                   refreshCalls, inserted, refreshOk>>
    /\ UNCHANGED cbVars

\* mutant of MailRejected: a rejected send is attempted once more
MailRejected_Retry(s) ==
    /\ pc[s] = "sending"
    /\ mailCalls[s] < 2
    /\ bearer' = [bearer EXCEPT ![s] = access_token[s]]
    /\ mailCalls' = [mailCalls EXCEPT ![s] = @ + 1]
    /\ pc' = [pc EXCEPT ![s] = IF mailCalls[s] = 0 THEN "sending" ELSE "err500"]
    /\ UNCHANGED <<store, prior, now, user, record, new_data, expires_at, access_token,
                   refreshCalls, inserted, offered, refreshOk>>
    /\ UNCHANGED cbVars

\* lines 182-194: the mail API answers another status, HTTP 500
MailRejected(s) ==
    /\ pc[s] = "sending"
    /\ bearer' = [bearer EXCEPT ![s] = access_token[s]]
    /\ mailCalls' = [mailCalls EXCEPT ![s] = @ + 1]
    /\ pc' = [pc EXCEPT ![s] = "err500"]
    /\ record' = [record EXCEPT ![s] = NoRow]
    /\ offered' = [offered EXCEPT ![s] = None]
    /\ UNCHANGED <<store, prior, now, user, new_data, expires_at, access_token,
                   refreshCalls, inserted, refreshOk>>
    /\ UNCHANGED cbVars

\* ---- time ----
Tick ==
    /\ now < MaxTime
    /\ now' = now + 1
    /\ UNCHANGED <<store, prior>>
    /\ UNCHANGED cbVars
    /\ UNCHANGED sendVars

Next ==
    \/ CallbackGranted
    \/ CallbackRejected
    \/ CallbackInsert
    \/ \E s \in Senders, u \in Principals : ResolveNotFound(s, u)
    \/ \E s \in Senders, u \in Principals : ResolveValid(s, u)
    \/ \E s \in Senders, u \in Principals : ResolveStale(s, u)
    \/ \E s \in Senders : RefreshGranted(s)
    \/ \E s \in Senders : RefreshRejected(s)
    \/ \E s \in Senders : RefreshInsert(s)
    \/ \E s \in Senders : MailAccepted(s)
    \/ \E s \in Senders : MailRejected(s)
    \/ Tick

Spec == Init /\ [][Next]_vars

\* ======================= properties =======================

\* The current credential of principal u in table st: the position of the row
\* of greatest created_at among u's rows (0: u has no row).
Current(st, u) ==
    LET S == {i \in 1..Len(st) : st[i].user_email = u}
    IN IF S = {} THEN 0
       ELSE CHOOSE i \in S : \A j \in S : st[j].created_at <= st[i].created_at

\* request s enters refresh_gmail_token for principal u in this step
Called(s, u) == pc[s] = "idle" /\ pc'[s] # "idle" /\ user'[s] = u

\* request s takes a step
Moved(s) ==
    \/ pc'[s] # pc[s]
    \/ refreshCalls'[s] # refreshCalls[s]
    \/ mailCalls'[s] # mailCalls[s]

\* the table only grows at its end
Extends(old, new) ==
    /\ Len(new) >= Len(old)
    /\ \A i \in 1..Len(old) : new[i] = old[i]

\* ---- C1 ----
C1_Step ==
    \A s \in Senders, u \in Principals :
        (/\ Called(s, u)
         /\ Current(store, u) # 0
         /\ now < store[Current(store, u)].expires_at)
        => /\ pc'[s] = "sending"
           /\ access_token'[s] = store[Current(store, u)].access_token
           /\ refreshCalls'[s] = 0
           /\ inserted'[s] = 0
           /\ store' = store

\* C1: a call of refresh_gmail_token for a principal whose latest row (greatest
\* created_at) has now < expires_at returns that row's access_token, makes no
\* call to the token endpoint and leaves the table unchanged.
C1_Freshness == [][C1_Step]_vars

\* a request served from the later of two rows, without a refresh
C1_Witness ==
    \E s \in Senders :
        /\ pc[s] = "sending"
        /\ inserted[s] = 0
        /\ refreshCalls[s] = 0
        /\ Len(store) >= 2
        /\ record[s].created_at = 2
        /\ access_token[s] = store[2].access_token

\* ---- C2 ----
C2_Step ==
    \A s \in Senders :
        /\ \A u \in Principals :
            (/\ Called(s, u)
             /\ Current(store, u) # 0
             /\ now >= store[Current(store, u)].expires_at)
            => /\ pc'[s] = "refreshing"
               /\ record'[s] = store[Current(store, u)]
        /\ (pc[s] = "inserting" /\ Moved(s))
            => /\ Len(store') = Len(store) + 1
               /\ Extends(store, store')
               /\ store'[Len(store')].user_email = user[s]
               /\ store'[Len(store')].access_token = new_data[s].access_token
               /\ store'[Len(store')].access_token # record[s].access_token
               /\ Current(store', user[s]) = Len(store')
               /\ pc'[s] = "sending"
               /\ access_token'[s] = new_data[s].access_token
        /\ (pc[s] # "inserting" /\ Moved(s)) => store' = store
        /\ (pc[s] = "refreshing" /\ pc'[s] = "inserting")
            => HasAccessToken(new_data'[s])

\* C2: a call for a principal whose latest row is stale (now >= expires_at, the
\* instant now = expires_at included) goes to the refresh exchange; when the
\* response carries an access token the call appends exactly one row for the
\* principal, returns the new access token, and the new row is the principal's
\* latest row from then on.
C2_RefreshPersists == [][C2_Step]_vars

\* one request refreshed at the instant of expiry; the next one is served the
\* new row without a refresh
C2_Witness ==
    \E s, t \in Senders :
        /\ s # t
        /\ inserted[s] # 0
        /\ store[prior[inserted[s]]].expires_at = now
        /\ pc[t] = "sending"
        /\ inserted[t] = 0
        /\ refreshCalls[t] = 0
        /\ record[t].created_at = inserted[s]
        /\ access_token[t] = access_token[s]

\* ---- C3 ----
\* C3: after a refresh whose response omits refresh_token, the row persisted
\* has the refresh_token of the row it was refreshed from, and that is not null.
C3_CarryForward ==
    \A s \in Senders :
        (pc[s] = "sending" /\ inserted[s] # 0 /\ offered[s] = None)
        => /\ store[inserted[s]].refresh_token = record[s].refresh_token
           /\ store[inserted[s]].refresh_token # None

\* ---- C4 ----
\* C4: once a row of a principal holds a refresh_token, every later row of that
\* principal holds one too.
C4_RefreshTokenNeverLost ==
    \A i, j \in 1..Len(store) :
        (/\ i < j
         /\ store[i].user_email = store[j].user_email
         /\ store[i].refresh_token # None)
        => store[j].refresh_token # None

\* ---- C5 ----
C5_Step ==
    \A s \in Senders :
        /\ \A u \in Principals :
            (Called(s, u) /\ Current(store, u) = 0)
            => /\ pc'[s] = "err404"
               /\ access_token'[s] = 0
               /\ refreshCalls'[s] = 0
               /\ store' = store
        /\ pc[s] = "err404"
            => /\ pc'[s] = "err404"
               /\ access_token'[s] = 0
               /\ refreshCalls'[s] = 0
               /\ mailCalls'[s] = 0
               /\ inserted'[s] = 0

\* C5: a call for a principal without rows ends in the 404 error: no token is
\* returned, the token endpoint is not called, no row is appended, and the send
\* request never calls the mail API.
C5_NotFound == [][C5_Step]_vars

\* a request for a principal without rows, while the table holds rows of another
C5_Witness ==
    \E s \in Senders :
        /\ pc[s] = "err404"
        /\ user[s] = OtherUser
        /\ Len(store) > 0

\* ---- C6 ----
C6_Step ==
    \A s \in Senders :
        /\ (pc[s] = "refreshing" /\ Moved(s))
            => /\ refreshCalls[s] = 0
               /\ refreshCalls'[s] = 1
               /\ pc'[s] \in {"inserting", "err400"}
        /\ (pc[s] = "refreshing" /\ pc'[s] = "err400")
            => /\ store' = store
               /\ Current(store', user[s]) = Current(store, user[s])
               /\ mailCalls'[s] = 0
               /\ inserted'[s] = 0
        /\ pc[s] = "err400"
            => /\ pc'[s] = "err400"
               /\ refreshCalls'[s] = 1
               /\ mailCalls'[s] = 0
               /\ inserted'[s] = 0

\* C6: when the refresh response lacks an access token, the call has made one
\* call to the token endpoint, ends in the 400 error and stays there (no retry),
\* appends no row, never calls the mail API, and the principal's latest row is
\* the one it was before the failure.
C6_RefreshFailure == [][C6_Step]_vars

C6_Witness ==
    \E s \in Senders :
        /\ pc[s] = "err400"
        /\ refreshCalls[s] = 1
        /\ Current(store, user[s]) # 0
        /\ now >= store[Current(store, user[s])].expires_at

\* ---- C7 ----
\* exchanges that returned an access token and whose insert is still to come
Pending(p) ==
    (IF p = FixedUser /\ cbpc = "inserting" THEN 1 ELSE 0)
    + Cardinality({s \in Senders : pc[s] = "inserting" /\ user[s] = p})

C7_Count ==
    \A p \in Principals :
        Cardinality({i \in 1..Len(store) : store[i].user_email = p}) + Pending(p)
        = (IF p = FixedUser THEN authOk ELSE 0) + refreshOk[p]

\* C7: no step modifies or removes a row, and the rows of a principal number
\* the authorization-code exchanges plus the refresh exchanges that returned an
\* access token for it (one whose insert is still in flight counted with its row).
C7_AppendOnly == [][Extends(store, store') /\ C7_Count']_vars

\* two callbacks and a refresh saved, a callback and a refresh rejected
C7_Witness ==
    /\ Len(store) = 3
    /\ authOk = 2
    /\ refreshOk[FixedUser] = 1
    /\ cbpc = "err400"
    /\ \E s \in Senders : pc[s] = "err400"

\* ---- C8 ----
\* C8: interleaved calls that each read a stale row each make their own refresh
\* exchange and append their own row; each returns the access token of the row
\* it inserted, rows of different calls are different rows and stay as
\* inserted, and the principal's current credential is the last row inserted.
C8_ConcurrentRefresh ==
    /\ \A s \in Senders :
        /\ inserted[s] # 0
            => /\ inserted[s] \in 1..Len(store)
               /\ store[inserted[s]].user_email = user[s]
               /\ store[inserted[s]].access_token = access_token[s]
               /\ refreshCalls[s] = 1
        /\ (refreshCalls[s] = 1 /\ pc[s] \in {"sending", "sent", "err500"})
            => inserted[s] # 0
    /\ \A s, t \in Senders : (s # t /\ inserted[s] # 0) => inserted[s] # inserted[t]
    /\ \A u \in Principals :
        Current(store, u) # 0
        => \A i \in 1..Len(store) :
               store[i].user_email = u => i <= Current(store, u)

\* two requests read the same stale row and both have refreshed and inserted
C8_Witness ==
    /\ \A s \in Senders : pc[s] = "sending" /\ inserted[s] # 0
    /\ \A s, t \in Senders : record[s] = record[t]
    /\ \E s \in Senders : Current(store, FixedUser) = inserted[s]

\* ---- C9 ----
C9_Inv ==
    \A s \in Senders :
        /\ mailCalls[s] <= 1
        /\ mailCalls[s] = 1 <=> pc[s] \in {"sent", "err500"}
        /\ mailCalls[s] = 1
            => /\ bearer[s] = access_token[s]
               /\ \E i \in 1..Len(store) :
                    /\ store[i].user_email = user[s]
                    /\ store[i].access_token = bearer[s]

C9_Step ==
    \A s \in Senders :
        /\ (pc[s] = "sending" /\ Moved(s))
            => /\ pc'[s] \in {"sent", "err500"}
               /\ mailCalls'[s] = 1
               /\ bearer'[s] = access_token[s]
               /\ store' = store
        /\ pc[s] \in {"sent", "err500"}
            => /\ pc'[s] = pc[s]
               /\ mailCalls'[s] = 1
               /\ bearer'[s] = bearer[s]

\* C9: a send request calls the mail API at most once, only after token
\* resolution returned a token, with that token; a non-success status ends
\* the request in the 500 error without another attempt, and the mail step
\* leaves the table unchanged.
C9_Dispatch == [][C9_Inv' /\ C9_Step]_vars

\* a mail call with a refreshed token that the mail API rejected
C9_Witness ==
    \E s \in Senders :
        /\ pc[s] = "err500"
        /\ inserted[s] # 0
        /\ bearer[s] = store[inserted[s]].access_token

\* ---- C10 ----
RECURSIVE Root(_)
\* the callback row a chain of refreshes started from
Root(i) == IF prior[i] = 0 THEN i ELSE Root(prior[i])

\* C10: a row appended by a refresh has the refresh_token, token_type and scope
\* of the row it was refreshed from, whatever the refresh response carried, so
\* every row has the refresh_token of the callback row its chain started from.
C10_RefreshKeepsGrant ==
    /\ Len(prior) = Len(store)
    /\ \A i \in 1..Len(store) :
        /\ prior[i] < i
        /\ prior[i] # 0
            => /\ store[i].user_email = store[prior[i]].user_email
               /\ store[i].refresh_token = store[prior[i]].refresh_token
               /\ store[i].token_type = store[prior[i]].token_type
               /\ store[i].scope = store[prior[i]].scope
        /\ store[i].refresh_token = store[Root(i)].refresh_token
    /\ \A s \in Senders :
        (pc[s] = "sending" /\ inserted[s] # 0)
        => /\ prior[inserted[s]] = record[s].created_at
           /\ store[inserted[s]].refresh_token = record[s].refresh_token

\* a second refresh in a chain, whose response offered another refresh_token,
\* token_type and scope than the row refreshed from
C10_Witness ==
    \E s \in Senders :
        /\ pc[s] = "sending"
        /\ inserted[s] # 0
        /\ prior[inserted[s]] # 0
        /\ prior[prior[inserted[s]]] # 0
        /\ record[s].refresh_token = "R1"
        /\ offered[s] = "R2"
        /\ store[inserted[s]].refresh_token = "R1"

====
